---------------------------- MODULE Spec2Model ----------------------------
(***************************************************************************)
(* A model of the prematch prediction service (src/app.py) and of its      *)
(* data cleaner (src/cleaner.py).                                          *)
(*                                                                         *)
(* Strings are sequences of tokens: a token is a word or one whitespace    *)
(* character, so "Man City " is <<"Man", " ", "City", " ">>.  Percentages  *)
(* are integers in tenths of a percent (52.4% is 524); goal averages are   *)
(* exact fractions <<sum_for, sum_against, games>>.                        *)
(***************************************************************************)
EXTENDS Integers, Sequences, FiniteSets, TLC

VARIABLES
    rawName,      \* resolver run: the raw team name given
    table,        \* resolver run: "app" or "cleaner", whose alias table is used
    resolved,     \* resolver run: the successive results of normalize_team
    df_master,    \* app.py module global: the loaded history
    request,      \* /match: the query arguments of the last request
    response,     \* /match: what the last request returned
    poisson,      \* /match: what the request's np.random.poisson calls drew
    query,        \* the last direct call of a form helper
    answer,       \* and what it returned
    today,        \* datetime.today().date()
    upcoming_csv, \* the rows of upcoming_matches.csv
    df_upcoming,  \* app.py module global: the fixture table
    pc,           \* / route: each request thread's position
    grouped,      \* / route: each thread's local dict in order_upcoming
    np_random,    \* numpy's module-level generator state
    seed,         \* the state that generator had when the process started
    expected,     \* sampling: each predict_match invocation's home_exp, away_exp
    spc,          \* sampling: each predict_match invocation's position
    drawn         \* sampling: the generator states each invocation sampled from

resolveVars  == <<rawName, table, resolved>>
masterVars   == <<df_master, request, response, poisson, query, answer>>
upcomingVars == <<today, upcoming_csv, df_upcoming, pc, grouped>>
samplingVars == <<np_random, seed, expected, spc, drawn>>
vars == <<resolveVars, masterVars, upcomingVars, samplingVars>>

----------------------------------------------------------------------------
(* Bounds of the model *)

MaxPad == 1        \* whitespace tokens before and after a raw name
MaxRows == 2       \* rows of master_matches.csv
MaxGoals == 1      \* the largest goal count in a row of master_matches.csv
MaxN == 2          \* the largest n of a direct get_last_n_matches(team, n) call
MaxFixtures == 2   \* rows of upcoming_matches.csv
MaxSeed == 7       \* the generator starts in one of the states 0..MaxSeed
GridN == 3         \* the counts of a Poisson draw are multiples of Sims / GridN

----------------------------------------------------------------------------
(* Strings *)

Whitespace == {" ", "\t"}

RECURSIVE W(_)
\* The words of a name joined by single spaces: how the source writes it.
W(words) ==
    IF Len(words) <= 1 THEN words
    ELSE <<Head(words), " ">> \o W(Tail(words))

RECURSIVE lstrip(_)
lstrip(s) == IF s # <<>> /\ Head(s) \in Whitespace THEN lstrip(Tail(s)) ELSE s

RECURSIVE rstrip(_)
rstrip(s) ==
    IF s # <<>> /\ s[Len(s)] \in Whitespace
    THEN rstrip(SubSeq(s, 1, Len(s) - 1))
    ELSE s

\* str.strip()
strip(s) == rstrip(lstrip(s))

\* Python's None, and str(None)
None == <<"<None>">>
str(x) == IF x = None THEN <<"None">> ELSE x

\* dict.get(key, default) on a table given as a set of <<key, value>> pairs
DictGet(dict, key, default) ==
    IF \E kv \in dict : kv[1] = key
    THEN (CHOOSE kv \in dict : kv[1] = key)[2]
    ELSE default

Keys(dict) == {kv[1] : kv \in dict}
Values(dict) == {kv[2] : kv \in dict}

----------------------------------------------------------------------------
(* Team normalization *)

TEAM_ALIASES_chained ==
    { <<W(<<"Man", "City">>),              W(<<"Manchester", "City">>)>>,
      <<W(<<"ManCity">>),                  W(<<"Man", "City">>)>>,
      <<W(<<"Manchester", "City", "FC">>), W(<<"Manchester", "City">>)>>,
      <<W(<<"Man", "Utd">>),               W(<<"Man", "United">>)>>,
      <<W(<<"Man", "United">>),            W(<<"Manchester", "United">>)>>,
      <<W(<<"Chelsea", "FC">>),            W(<<"Chelsea">>)>>,
      <<W(<<"Liverpool", "FC">>),          W(<<"Liverpool">>)>>,
      <<W(<<"Arsenal", "FC">>),            W(<<"Arsenal">>)>> }

TEAM_ALIASES ==
    { <<W(<<"Man", "City">>),              W(<<"Manchester", "City">>)>>,
      <<W(<<"ManCity">>),                  W(<<"Manchester", "City">>)>>,
      <<W(<<"Manchester", "City", "FC">>), W(<<"Manchester", "City">>)>>,
      <<W(<<"Man", "Utd">>),               W(<<"Manchester", "United">>)>>,
      <<W(<<"Man", "United">>),            W(<<"Manchester", "United">>)>>,
      <<W(<<"Chelsea", "FC">>),            W(<<"Chelsea">>)>>,
      <<W(<<"Liverpool", "FC">>),          W(<<"Liverpool">>)>>,
      <<W(<<"Arsenal", "FC">>),            W(<<"Arsenal">>)>> }

normalize_team(name) ==
    LET stripped == strip(str(name))
    IN  DictGet(TEAM_ALIASES, stripped, stripped)

\* The table of cleaner.py.  Its key for Standard Liege is written with the two
\* characters of a mis-decoded e-grave (U+00C3 U+00A8); the token LiC3A8ge
\* stands for that word.
CLEANER_TEAM_ALIASES ==
    { <<W(<<"Man", "City">>),              W(<<"Manchester", "City">>)>>,
      <<W(<<"ManCity">>),                  W(<<"Manchester", "City">>)>>,
      <<W(<<"Manchester", "City", "FC">>), W(<<"Manchester", "City">>)>>,
      <<W(<<"Man", "Utd">>),               W(<<"Manchester", "United">>)>>,
      <<W(<<"Man", "United">>),            W(<<"Manchester", "United">>)>>,
      <<W(<<"Liverpool", "FC">>),          W(<<"Liverpool">>)>>,
      <<W(<<"Chelsea", "FC">>),            W(<<"Chelsea">>)>>,
      <<W(<<"Arsenal", "FC">>),            W(<<"Arsenal">>)>>,
      <<W(<<"Brighton", "&", "Hove", "Albion", "FC">>), W(<<"Brighton">>)>>,
      <<W(<<"Brighton", "&", "Hove", "Albion">>),       W(<<"Brighton">>)>>,
      <<W(<<"Brighton", "FC">>),           W(<<"Brighton">>)>>,
      <<W(<<"Bristol", "City", "Fc">>),    W(<<"Bristol", "City">>)>>,
      <<W(<<"Birmingham", "City", "Fc">>), W(<<"Birmingham", "City">>)>>,
      <<W(<<"Leicester", "City", "FC">>),  W(<<"Leicester", "City">>)>>,
      <<W(<<"Oxford", "United", "FC">>),   W(<<"Oxford", "United">>)>>,
      <<W(<<"Millwall", "FC">>),           W(<<"Millwall">>)>>,
      <<W(<<"Middlesbrough", "FC">>),      W(<<"Middlesbrough">>)>>,
      <<W(<<"Preston", "North", "End", "FC">>), W(<<"Preston", "North", "End">>)>>,
      <<W(<<"Coventry", "City", "FC">>),   W(<<"Coventry", "City">>)>>,
      <<W(<<"Norwich", "City", "FC">>),    W(<<"Norwich", "City">>)>>,
      <<W(<<"Sheffield", "Wednesday", "FC">>), W(<<"Sheffield", "Wednesday">>)>>,
      <<W(<<"Derby", "County", "FC">>),    W(<<"Derby", "County">>)>>,
      <<W(<<"West", "Bromwich", "Albion", "FC">>), W(<<"West", "Bromwich", "Albion">>)>>,
      <<W(<<"Hull", "City", "AFC">>),      W(<<"Hull", "City">>)>>,
      <<W(<<"Swansea", "City", "AFC">>),   W(<<"Swansea", "City">>)>>,
      <<W(<<"Portsmouth", "FC">>),         W(<<"Portsmouth">>)>>,
      <<W(<<"Charlton", "Athletic", "FC">>), W(<<"Charlton", "Athletic">>)>>,
      <<W(<<"Standard", "LiC3A8ge">>),     W(<<"Standard", "Liege">>)>>,
      <<W(<<"RSC", "Anderlecht">>),        W(<<"Anderlecht">>)>> }

cleaner_normalize_team(name) ==
    LET stripped == strip(str(name))
    IN  DictGet(CLEANER_TEAM_ALIASES, stripped, stripped)

----------------------------------------------------------------------------
(* Resolver runs: normalize_team applied to a raw name, then to its result *)

Pads == UNION {[1..k -> Whitespace] : k \in 0..MaxPad}

\* Names neither table knows, the empty string among them.
UnknownNames ==
    { <<>>, W(<<"Tottenham">>), W(<<"Real", "Madrid">>), W(<<"FC">>),
      <<"Man", " ", " ", "City">>, <<"None">> }

Cores ==
    Keys(TEAM_ALIASES) \cup Values(TEAM_ALIASES)
        \cup Keys(CLEANER_TEAM_ALIASES) \cup Values(CLEANER_TEAM_ALIASES)
        \cup UnknownNames

RawNames == {l \o c \o r : l \in Pads, c \in Cores, r \in Pads} \cup {None}

ResolveIdle ==
    /\ rawName = <<>>
    /\ table = "none"
    /\ resolved = <<>>

Last(s) == s[Len(s)]

\* app.py's normalize_team, applied to the name or to the previous result
ResolveApp ==
    /\ table = "app"
    /\ Len(resolved) < 2
    /\ resolved' = Append(resolved,
           normalize_team(IF resolved = <<>> THEN rawName ELSE Last(resolved)))
    /\ UNCHANGED <<rawName, table, masterVars, upcomingVars, samplingVars>>

\* cleaner.py's normalize_team, likewise
ResolveCleaner ==
    /\ table = "cleaner"
    /\ Len(resolved) < 2
    /\ resolved' = Append(resolved,
           cleaner_normalize_team(IF resolved = <<>> THEN rawName ELSE Last(resolved)))
    /\ UNCHANGED <<rawName, table, masterVars, upcomingVars, samplingVars>>

----------------------------------------------------------------------------
(* Numbers as text, dates *)

Digits == <<"0", "1", "2", "3", "4", "5", "6", "7", "8", "9">>

DigitValue(c) == (CHOOSE i \in 1..10 : Digits[i] = c) - 1

IsNumeric(text) ==
    /\ text # <<>>
    /\ \A i \in 1..Len(text) : \E d \in 1..10 : Digits[d] = text[i]

RECURSIVE FormatInt(_)
\* f"{k}" of an integer k >= 0
FormatInt(k) ==
    IF k < 10 THEN <<Digits[k + 1]>>
    ELSE Append(FormatInt(k \div 10), Digits[(k % 10) + 1])

RECURSIVE ParseInt(_)
\* int(text) of a text of decimal digits
ParseInt(text) ==
    IF Len(text) = 1 THEN DigitValue(text[1])
    ELSE 10 * ParseInt(SubSeq(text, 1, Len(text) - 1)) + DigitValue(text[Len(text)])

RECURSIVE Split(_, _)
\* text.split(sep) for a one-token separator
Split(text, sep) ==
    IF \A i \in 1..Len(text) : text[i] # sep THEN <<text>>
    ELSE LET i == CHOOSE j \in 1..Len(text) :
                      text[j] = sep /\ \A k \in 1..(j - 1) : text[k] # sep
         IN  <<SubSeq(text, 1, i - 1)>> \o Split(SubSeq(text, i + 1, Len(text)), sep)

\* A timestamp is a day number; NaT is what pd.to_datetime(errors="coerce")
\* yields for a cell it cannot parse.
NaT == -1

KnownDates == {<<"2024-05-01", 1>>, <<"2024-05-02", 2>>, <<"2024-05-03", 3>>}

to_datetime(cell) == DictGet(KnownDates, cell, NaT)

\* datetime.dt.date.astype(str)
date_str(dt) ==
    IF dt = NaT THEN "NaT" ELSE (CHOOSE kv \in KnownDates : kv[2] = dt)[1]

\* pd.to_numeric(cell, errors="coerce"), fillna(0), astype(int)
to_int_or_zero(cell) == IF IsNumeric(cell) THEN ParseInt(cell) ELSE 0

----------------------------------------------------------------------------
(* load_master *)

\* A row of master_matches.csv has the columns home, away, date, fthg, ftag
\* and no time column (line 93); fthg and ftag are renamed at line 85.

load_master_row(r) ==
    [ datetime   |-> to_datetime(r.date),
      date       |-> date_str(to_datetime(r.date)),
      home_goals |-> to_int_or_zero(r.fthg),
      away_goals |-> to_int_or_zero(r.ftag),
      home       |-> normalize_team(r.home),
      away       |-> normalize_team(r.away) ]

load_master(csv) == [i \in 1..Len(csv) |-> load_master_row(csv[i])]

----------------------------------------------------------------------------
(* get_last_n_matches *)

RECURSIVE SelectRows(_, _)
\* df[(df["home"] == team) | (df["away"] == team)], file order kept
SelectRows(df, team) ==
    IF df = <<>> THEN <<>>
    ELSE (IF Head(df).home = team \/ Head(df).away = team THEN <<Head(df)>> ELSE <<>>)
            \o SelectRows(Tail(df), team)

RECURSIVE InsertDesc(_, _)
\* r placed after every row of the descending sequence that is not older
InsertDesc(sorted, r) ==
    IF sorted = <<>> THEN <<r>>
    ELSE IF Head(sorted).datetime >= r.datetime
         THEN <<Head(sorted)>> \o InsertDesc(Tail(sorted), r)
         ELSE <<r>> \o sorted

RECURSIVE SortDesc(_)
SortDesc(rows) ==
    IF rows = <<>> THEN <<>>
    ELSE InsertDesc(SortDesc(SubSeq(rows, 1, Len(rows) - 1)), rows[Len(rows)])

Timed(rows)   == SelectSeq(rows, LAMBDA r : r.datetime # NaT)
Untimed(rows) == SelectSeq(rows, LAMBDA r : r.datetime = NaT)

\* sort_values("datetime", ascending=False): the rows with a timestamp most
\* recent first (equal timestamps in file order), then the NaT rows
\* (na_position="last") in file order.
sort_values_desc(rows) == SortDesc(Timed(rows)) \o Untimed(rows)

head(rows, n) == SubSeq(rows, 1, IF n < Len(rows) THEN n ELSE Len(rows))

form_entry(row, team) ==
    LET gf == IF row.home = team THEN row.home_goals ELSE row.away_goals
        ga == IF row.home = team THEN row.away_goals ELSE row.home_goals
    IN  [ date    |-> row.date,
          home    |-> row.home,
          away    |-> row.away,
          score   |-> FormatInt(gf) \o <<"-">> \o FormatInt(ga),
          outcome |-> IF gf > ga THEN "W" ELSE IF gf = ga THEN "D" ELSE "L" ]

get_last_n_matches(df, team, n) ==
    LET matches == head(sort_values_desc(SelectRows(df, team)), n)
    IN  [i \in 1..Len(matches) |-> form_entry(matches[i], team)]

----------------------------------------------------------------------------
(* predict_match *)

FORM_WINDOW == 10      \* get_last_n_matches(team, 10)
FORM_SHOWN == 4        \* home_form[:4]
DEFAULT_STRENGTH == 70 \* TEAM_STRENGTH.get(team, 70)
Sims == 1000           \* sims = 1000

TEAM_STRENGTH ==
    { <<W(<<"Manchester", "City">>), 95>>,  <<W(<<"Chelsea">>), 88>>,
      <<W(<<"Arsenal">>), 90>>,             <<W(<<"Liverpool">>), 89>>,
      <<W(<<"Man", "United">>), 85>>,       <<W(<<"Tottenham">>), 84>>,
      <<W(<<"Newcastle">>), 83>>,           <<W(<<"Brighton">>), 80>>,
      <<W(<<"Everton">>), 75>>,             <<W(<<"West", "Ham">>), 74>>,
      <<W(<<"Aston", "Villa">>), 73>>,      <<W(<<"Leicester", "City">>), 72>>,
      <<W(<<"Southampton">>), 70>>,         <<W(<<"Bournemouth">>), 68>>,
      <<W(<<"Nottingham", "Forest">>), 67>>, <<W(<<"Crystal", "Palace">>), 66>>,
      <<W(<<"Sheffield", "United">>), 78>>, <<W(<<"Bristol", "City">>), 72>>,
      <<W(<<"Millwall">>), 70>>,            <<W(<<"Coventry", "City">>), 69>>}

\* round-half-even of a / b, for b > 0
RoundDiv(a, b) ==
    LET q == a \div b
        r == a % b
    IN  IF 2 * r < b THEN q
        ELSE IF 2 * r > b THEN q + 1
        ELSE IF q % 2 = 0 THEN q ELSE q + 1

\* round(a / b * 100, 1) in tenths of a percent, for 0 <= a and 0 < b: the
\* quotient 1000 * a / b taken digit by digit, then rounded half-even.
Percent10(a, b) ==
    LET q0 == a \div b
        r0 == a % b
        d1 == (10 * r0) \div b
        r1 == (10 * r0) % b
        d2 == (10 * r1) \div b
        r2 == (10 * r1) % b
        d3 == (10 * r2) \div b
        r3 == (10 * r2) % b
        q  == 1000 * q0 + 100 * d1 + 10 * d2 + d3
    IN  IF 2 * r3 < b THEN q
        ELSE IF 2 * r3 > b THEN q + 1
        ELSE IF q % 2 = 0 THEN q ELSE q + 1

\* The recency weights, in tenths
FORM_WEIGHTS == <<20, 18, 15, 12, 10, 10, 10, 10, 10, 10>>

score_map(outcome) == CASE outcome = "W" -> 3 [] outcome = "D" -> 1 [] outcome = "L" -> 0

RECURSIVE SumSeq(_)
SumSeq(s) == IF s = <<>> THEN 0 ELSE Head(s) + SumSeq(Tail(s))

\* weighted_score(form), in tenths
weighted_score(form) ==
    SumSeq([i \in 1..Len(form) |-> score_map(form[i].outcome) * FORM_WEIGHTS[i]])

\* What avg_goals adds for one form entry: <<to gf, to ga>>
avg_goals_term(m, team) ==
    LET parts == Split(m.score, "-")
    IN  IF m.home = team
        THEN <<ParseInt(parts[1]), ParseInt(parts[2])>>
        ELSE <<ParseInt(parts[2]), ParseInt(parts[1])>>

\* avg_goals(team) as the fraction <<gf, ga, n>> for (gf / n, ga / n);
\* (1.0, 1.0) is <<1, 1, 1>>
avg_goals(df, team) ==
    LET matches == get_last_n_matches(df, team, FORM_WINDOW)
        n  == Len(matches)
        gf == SumSeq([i \in 1..n |-> avg_goals_term(matches[i], team)[1]])
        ga == SumSeq([i \in 1..n |-> avg_goals_term(matches[i], team)[2]])
    IN  IF n > 0 THEN <<gf, ga, n>> ELSE <<1, 1, 1>>

\* What predict_match reads for its two sides: lines 163-191
predict_inputs(df, home, away) ==
    [ home_form |-> get_last_n_matches(df, home, FORM_WINDOW),
      away_form |-> get_last_n_matches(df, away, FORM_WINDOW),
      home_avg  |-> avg_goals(df, home),
      away_avg  |-> avg_goals(df, away),
      home_base |-> DictGet(TEAM_STRENGTH, home, DEFAULT_STRENGTH),
      away_base |-> DictGet(TEAM_STRENGTH, away, DEFAULT_STRENGTH) ]

\* base*0.4 + score*0.7 + gf*0.6 - ga*0.4, times 100 * n
power_num(base, form, avg) ==
    40 * base * avg[3] + 7 * weighted_score(form) * avg[3] + 60 * avg[1] - 40 * avg[2]

\* Lines 193-200: the shares of the two powers, in tenths of a percent.
\* home_power * 1.1 is 11 * hp / (1000 * nh), away_power is 10 * ap / (1000 * na)
\* and the 0.01 of total is 10 / 1000.
power_share(in) ==
    LET hp    == 11 * power_num(in.home_base, in.home_form, in.home_avg) * in.away_avg[3]
        ap    == 10 * power_num(in.away_base, in.away_form, in.away_avg) * in.home_avg[3]
        total == hp + ap + 10 * in.home_avg[3] * in.away_avg[3]
        hw    == Percent10(hp, total)
        aw    == Percent10(ap, total)
    IN  [home_win |-> hw, away_win |-> aw, draw |-> 1000 - hw - aw]

\* Line 230: round(home_win*(1-draw_adjust/100) + mean(home > away)*draw_adjust, 1)
\* with draw_adjust = 100 * draws / sims and mean(home > away) = home_wins / sims
blended_home_win(home_win, sims) ==
    RoundDiv(home_win * (Sims - sims.draws) * Sims + 1000 * sims.home_wins * sims.draws,
             Sims * Sims)

\* Line 232: round(draw_adjust, 1)
final_draw(sims) == RoundDiv(1000 * sims.draws, Sims)

final_away_win_int(home_win, draw) == 10 * RoundDiv(1000 - home_win - draw, 10)

\* Line 231: round(100 - home_win - round(draw_adjust, 1), 1)
final_away_win(home_win, draw) == 1000 - home_win - draw

\* predict_match(home, away), given what its two np.random.poisson calls drew:
\* sims.home_wins of the sims pairs have home > away, sims.draws have home = away.
\* btts, over25 and ft_score are not modelled.
predict_match(df, home, away, sims) ==
    LET in       == predict_inputs(df, home, away)
        home_win == blended_home_win(power_share(in).home_win, sims)
        draw     == final_draw(sims)
    IN  [ prediction |-> [ home_win |-> home_win,
                           draw     |-> draw,
                           away_win |-> final_away_win(home_win, draw) ],
          home_form  |-> head(in.home_form, FORM_SHOWN),
          away_form  |-> head(in.away_form, FORM_SHOWN) ]

----------------------------------------------------------------------------
(* The history file and the requests of the model *)

CsvTeams == {W(<<"Man", "City">>), W(<<"Arsenal", "FC">>)}

NumberCells == {FormatInt(g) : g \in 0..MaxGoals}

\* The rows master_matches.csv may hold, for given date and goal cells
MasterRows(dates, cells) ==
    { r \in [home : CsvTeams, away : CsvTeams, date : dates, fthg : cells, ftag : cells] :
        r.home # r.away }

MasterFiles(rows) == UNION {[1..k -> rows] : k \in 0..MaxRows}

GoodDates == {"2024-05-01", "2024-05-02"}
AnyDates  == GoodDates \cup {"n/a"}
AnyCells  == NumberCells \cup {<<"x">>}

\* The histories of the /match runs: a home win, a draw or an away win per row
Scorelines == {<<2, 0>>, <<1, 1>>, <<0, 1>>}

ScoredRows ==
    { r \in MasterRows(GoodDates, {FormatInt(g) : g \in 0..2}) :
        <<ParseInt(r.fthg), ParseInt(r.ftag)>> \in Scorelines }

\* The names a request or a direct call may carry: missing, empty, an alias
\* and canonical names.
QueryNames ==
    { None, <<>>, W(<<"Man", "City">>), W(<<"Manchester", "City">>), W(<<"Arsenal">>) }

PoissonGrid == {(k * Sims) \div GridN : k \in 0..GridN}

PoissonDraws ==
    { s \in [home_wins : PoissonGrid, draws : PoissonGrid] :
        s.home_wins + s.draws <= Sims }

NoRequest  == [home |-> None, away |-> None]
NoResponse == [status |-> 0]
NoPoisson  == [home_wins |-> 0, draws |-> 0]
NoQuery    == [fn |-> "none"]
NoAnswer   == <<>>

MasterIdle ==
    /\ df_master = <<>>
    /\ request = NoRequest
    /\ response = NoResponse
    /\ poisson = NoPoisson
    /\ query = NoQuery
    /\ answer = NoAnswer

\* The /match route: the names are read from the query string (None when the
\* parameter is missing), predict_match runs, drawing sims, and the page is
\* rendered.
match_detail(sims) ==
    /\ response = NoResponse
    /\ poisson' = sims
    /\ response' = [ status |-> 200,
                     home   |-> request.home,
                     away   |-> request.away,
                     pred   |-> predict_match(df_master, request.home, request.away, sims) ]
    /\ UNCHANGED <<df_master, request, query, answer,
                   resolveVars, upcomingVars, samplingVars>>

\* A direct call get_last_n_matches(team, n)
call_get_last_n_matches(team, n) ==
    /\ query' = [fn |-> "get_last_n_matches", team |-> team, n |-> n]
    /\ answer' = get_last_n_matches(df_master, team, n)
    /\ UNCHANGED <<df_master, request, response, poisson,
                   resolveVars, upcomingVars, samplingVars>>

\* A direct call of predict_match's avg_goals(team)
call_avg_goals(team) ==
    /\ query' = [fn |-> "avg_goals", team |-> team, n |-> FORM_WINDOW]
    /\ answer' = avg_goals(df_master, team)
    /\ UNCHANGED <<df_master, request, response, poisson,
                   resolveVars, upcomingVars, samplingVars>>

----------------------------------------------------------------------------
(* The / route: load_upcoming, then order_upcoming, in each request thread *)

LEAGUE_ORDER ==
    << "EPL", "Championship", "LaLiga", "SerieA", "Bundesliga", "Ligue1",
       "BelgianProLeague", "Eredivisie", "PrimeiraLiga" >>

FIXTURE_CAP == 4   \* .head(4)

Threads == {1, 2}

\* A DataFrame: its columns and its rows, each row a function on the columns
DataFrame(columns, rows) == [columns |-> columns, rows |-> rows]

NoFrame == DataFrame({}, <<>>)

\* df[column] = values, one value per row
set_column(df, column, values) ==
    DataFrame(df.columns \cup {column},
              [i \in 1..Len(df.rows) |->
                  [c \in df.columns \cup {column} |->
                      IF c = column THEN values[i] ELSE df.rows[i][c]]])


\* pd.read_csv(UPCOMING_CSV): the file has the columns league, home, away, date
read_upcoming_csv(csv) == DataFrame({"league", "home", "away", "date"}, csv)

\* pd.to_datetime(date + " " + time, errors="coerce")
to_datetime_of(date, time) == IF time = "00:00" THEN to_datetime(date) ELSE NaT

\* datetime.dt.strftime("%H:%M"): the rows carry no time of day
strftime_HM(dt) == IF dt = NaT THEN "NaN" ELSE "00:00"

UpcomingIdle ==
    /\ today = 0
    /\ upcoming_csv = <<>>
    /\ df_upcoming = NoFrame
    /\ pc = <<>>
    /\ grouped = <<>>

routeRest == <<today, upcoming_csv, resolveVars, masterVars, samplingVars>>

\* A request for / arrives: upcoming() calls load_upcoming()
upcoming(t) ==
    /\ pc[t] = "idle"
    /\ pc' = [pc EXCEPT ![t] = "read_csv"]
    /\ UNCHANGED <<df_upcoming, grouped, routeRest>>

\* Lines 106-109: the file is read and the new frame bound to the global
load_read_csv(t) ==
    /\ pc[t] = "read_csv"
    /\ df_upcoming' = read_upcoming_csv(upcoming_csv)
    /\ pc' = [pc EXCEPT ![t] = "columns"]
    /\ UNCHANGED <<grouped, routeRest>>

\* Lines 110-117: without a datetime column the date and time columns are
\* found, and a missing time column is filled with "00:00"
load_columns(t) ==
    /\ pc[t] = "columns"
    /\ IF "datetime" \in df_upcoming.columns
       THEN /\ pc' = [pc EXCEPT ![t] = "reparse"]
            /\ UNCHANGED df_upcoming
       ELSE /\ pc' = [pc EXCEPT ![t] = "parse"]
            /\ df_upcoming' =
                   IF "time" \in df_upcoming.columns THEN df_upcoming
                   ELSE set_column(df_upcoming, "time",
                                   [i \in 1..Len(df_upcoming.rows) |-> "00:00"])
    /\ UNCHANGED <<grouped, routeRest>>

\* Lines 118-121: datetime parsed from the date and time columns
load_parse(t) ==
    /\ pc[t] = "parse"
    /\ IF "time" \in df_upcoming.columns
       THEN /\ df_upcoming' = set_column(df_upcoming, "datetime",
                                  [i \in 1..Len(df_upcoming.rows) |->
                                      to_datetime_of(df_upcoming.rows[i].date,
                                                     df_upcoming.rows[i].time)])
            /\ pc' = [pc EXCEPT ![t] = "date"]
       ELSE \* KeyError: the frame now bound to the global has no time column
            /\ pc' = [pc EXCEPT ![t] = "load_failed"]
            /\ UNCHANGED df_upcoming
    /\ UNCHANGED <<grouped, routeRest>>

\* Line 123: an existing datetime column is parsed again
load_reparse(t) ==
    /\ pc[t] = "reparse"
    /\ IF "datetime" \in df_upcoming.columns
       THEN /\ pc' = [pc EXCEPT ![t] = "date"]
            /\ UNCHANGED df_upcoming
       ELSE /\ pc' = [pc EXCEPT ![t] = "load_failed"]
            /\ UNCHANGED df_upcoming
    /\ UNCHANGED <<grouped, routeRest>>

\* Line 124: date = datetime.dt.date.astype(str)
load_date(t) ==
    /\ pc[t] = "date"
    /\ IF "datetime" \in df_upcoming.columns
       THEN /\ df_upcoming' = set_column(df_upcoming, "date",
                                  [i \in 1..Len(df_upcoming.rows) |->
                                      date_str(df_upcoming.rows[i].datetime)])
            /\ pc' = [pc EXCEPT ![t] = "time"]
       ELSE /\ pc' = [pc EXCEPT ![t] = "load_failed"]
            /\ UNCHANGED df_upcoming
    /\ UNCHANGED <<grouped, routeRest>>

\* Line 125: time = datetime.dt.strftime("%H:%M")
load_time(t) ==
    /\ pc[t] = "time"
    /\ IF "datetime" \in df_upcoming.columns
       THEN /\ df_upcoming' = set_column(df_upcoming, "time",
                                  [i \in 1..Len(df_upcoming.rows) |->
                                      strftime_HM(df_upcoming.rows[i].datetime)])
            /\ pc' = [pc EXCEPT ![t] = "home"]
       ELSE /\ pc' = [pc EXCEPT ![t] = "load_failed"]
            /\ UNCHANGED df_upcoming
    /\ UNCHANGED <<grouped, routeRest>>

\* Line 126: home = home.apply(normalize_team)
load_home(t) ==
    /\ pc[t] = "home"
    /\ df_upcoming' = set_column(df_upcoming, "home",
                           [i \in 1..Len(df_upcoming.rows) |->
                               normalize_team(df_upcoming.rows[i].home)])
    /\ pc' = [pc EXCEPT ![t] = "away"]
    /\ UNCHANGED <<grouped, routeRest>>

\* Line 127: away = away.apply(normalize_team); load_upcoming returns and
\* order_upcoming starts with an empty dict (lines 247-248)
load_away(t) ==
    /\ pc[t] = "away"
    /\ df_upcoming' = set_column(df_upcoming, "away",
                           [i \in 1..Len(df_upcoming.rows) |->
                               normalize_team(df_upcoming.rows[i].away)])
    /\ pc' = [pc EXCEPT ![t] = "order"]
    /\ grouped' = [grouped EXCEPT ![t] = <<>>]
    /\ UNCHANGED routeRest

RECURSIVE InsertAsc(_, _)
InsertAsc(sorted, r) ==
    IF sorted = <<>> THEN <<r>>
    ELSE IF Head(sorted).datetime <= r.datetime
         THEN <<Head(sorted)>> \o InsertAsc(Tail(sorted), r)
         ELSE <<r>> \o sorted

RECURSIVE SortAsc(_)
\* sort_values("datetime"), equal timestamps in frame order
SortAsc(rows) ==
    IF rows = <<>> THEN <<>>
    ELSE InsertAsc(SortAsc(SubSeq(rows, 1, Len(rows) - 1)), rows[Len(rows)])

\* Lines 250-252: the league's fixtures from today on, soonest first, capped.
\* A NaT compares false with today.
league_fixtures(df, league, day) ==
    head(SortAsc(SelectSeq(df.rows,
                   LAMBDA r : r.league = league /\ r.datetime # NaT /\ r.datetime >= day)),
         FIXTURE_CAP)

\* Lines 249-253: one turn of the loop over LEAGUE_ORDER, reading the global
order_league(t) ==
    /\ pc[t] = "order"
    /\ Len(grouped[t]) < Len(LEAGUE_ORDER)
    /\ IF "datetime" \in df_upcoming.columns
       THEN LET league == LEAGUE_ORDER[Len(grouped[t]) + 1]
            IN  /\ grouped' = [grouped EXCEPT ![t] =
                       Append(@, <<league, league_fixtures(df_upcoming, league, today)>>)]
                /\ pc' = pc
       ELSE \* KeyError: 'datetime'
            /\ pc' = [pc EXCEPT ![t] = "order_failed"]
            /\ UNCHANGED grouped
    /\ UNCHANGED <<df_upcoming, routeRest>>

\* Lines 254, 263: the dict is returned and rendered
render_upcoming(t) ==
    /\ pc[t] = "order"
    /\ Len(grouped[t]) = Len(LEAGUE_ORDER)
    /\ pc' = [pc EXCEPT ![t] = "done"]
    /\ UNCHANGED <<df_upcoming, grouped, routeRest>>

----------------------------------------------------------------------------
(* The Poisson draws of predict_match, lines 216-218 *)

Invocations == {1, 2}

\* numpy's module-level generator: its states lie on one cycle, a state is
\* its position on it, and a call of np.random.poisson moves it forward.
generator_after_call(state) == state + 1

\* The generator an invocation draws from: np.random, whoever calls
generator_of(p) == np_random

\* np.random.poisson(lam, sims): the samples are a function of the state the
\* generator is in and of lam; they are kept as that pair.
poisson_samples(state, lam) == [state |-> state, lam |-> lam]

\* home_exp and away_exp in tenths, at the ends of their clamps (lines 213-214)
ExpectedGoals == {<<12, 8>>, <<45, 35>>}

SamplingIdle ==
    /\ np_random = 0
    /\ seed = 0
    /\ expected = <<>>
    /\ spc = <<>>
    /\ drawn = <<>>

\* Line 217: home_goals_sims = np.random.poisson(home_exp, sims)
draw_home(p) ==
    /\ spc[p] = "home_goals_sims"
    /\ drawn' = [drawn EXCEPT ![p] =
                    Append(@, poisson_samples(generator_of(p), expected[p][1]))]
    /\ np_random' = generator_after_call(generator_of(p))
    /\ spc' = [spc EXCEPT ![p] = "away_goals_sims"]
    /\ UNCHANGED <<seed, expected, resolveVars, masterVars, upcomingVars>>

\* Line 218: away_goals_sims = np.random.poisson(away_exp, sims)
draw_away(p) ==
    /\ spc[p] = "away_goals_sims"
    /\ drawn' = [drawn EXCEPT ![p] =
                    Append(@, poisson_samples(generator_of(p), expected[p][2]))]
    /\ np_random' = generator_after_call(generator_of(p))
    /\ spc' = [spc EXCEPT ![p] = "drawn"]
    /\ UNCHANGED <<seed, expected, resolveVars, masterVars, upcomingVars>>

----------------------------------------------------------------------------
(* Specifications *)

\* normalize_team on every raw name, twice
InitResolve ==
    /\ rawName \in RawNames
    /\ table \in {"app", "cleaner"}
    /\ resolved = <<>>
    /\ MasterIdle /\ UpcomingIdle /\ SamplingIdle

NextResolve == ResolveApp \/ ResolveCleaner

SpecResolve == InitResolve /\ [][NextResolve]_vars

\* One /match request against a loaded history
InitPredict ==
    /\ \E csv \in MasterFiles(ScoredRows) : df_master = load_master(csv)
    /\ request \in [home : QueryNames, away : QueryNames]
    /\ response = NoResponse
    /\ poisson = NoPoisson
    /\ query = NoQuery
    /\ answer = NoAnswer
    /\ ResolveIdle /\ UpcomingIdle /\ SamplingIdle

NextPredict == \E sims \in PoissonDraws : match_detail(sims)

SpecPredict == InitPredict /\ [][NextPredict]_vars

\* Direct calls of the form helpers against a loaded history
InitForm ==
    /\ \E csv \in MasterFiles(MasterRows(AnyDates, AnyCells)) :
           df_master = load_master(csv)
    /\ request = NoRequest
    /\ response = NoResponse
    /\ poisson = NoPoisson
    /\ query = NoQuery
    /\ answer = NoAnswer
    /\ ResolveIdle /\ UpcomingIdle /\ SamplingIdle

NextForm ==
    \/ \E team \in QueryNames, n \in 0..MaxN : call_get_last_n_matches(team, n)
    \/ \E team \in QueryNames : call_avg_goals(team)

SpecForm == InitForm /\ [][NextForm]_vars

\* Two concurrent requests for /
UpcomingLeagues == {"EPL", "LaLiga", "MLS"}

UpcomingDates == {"2024-05-01", "2024-05-03", "n/a"}

UpcomingRows ==
    { r \in [league : UpcomingLeagues, home : {W(<<"Man", "City">>)},
             away : {W(<<"Arsenal", "FC">>)}, date : UpcomingDates] : TRUE }

InitUpcoming ==
    /\ today = 2
    /\ upcoming_csv \in UNION {[1..k -> UpcomingRows] : k \in 0..MaxFixtures}
    /\ df_upcoming = NoFrame
    /\ pc = [t \in Threads |-> "idle"]
    /\ grouped = [t \in Threads |-> <<>>]
    /\ ResolveIdle /\ MasterIdle /\ SamplingIdle

NextUpcoming ==
    \E t \in Threads :
        \/ upcoming(t)
        \/ load_read_csv(t)
        \/ load_columns(t)
        \/ load_parse(t)
        \/ load_reparse(t)
        \/ load_date(t)
        \/ load_time(t)
        \/ load_home(t)
        \/ load_away(t)
        \/ order_league(t)
        \/ render_upcoming(t)

SpecUpcoming == InitUpcoming /\ [][NextUpcoming]_vars

\* Two predict_match invocations reaching their Poisson draws
InitSampling ==
    /\ seed \in 0..MaxSeed
    /\ np_random = seed
    /\ expected \in [Invocations -> ExpectedGoals]
    /\ spc = [p \in Invocations |-> "home_goals_sims"]
    /\ drawn = [p \in Invocations |-> <<>>]
    /\ ResolveIdle /\ MasterIdle /\ UpcomingIdle

NextSampling == \E p \in Invocations : draw_home(p) \/ draw_away(p)

SpecSampling == InitSampling /\ [][NextSampling]_vars

----------------------------------------------------------------------------
(* Claims about /match, checked under SpecPredict *)

Answered == response.status = 200

Missing(name) == name = None \/ name = <<>>

\* C1: the home_win, draw and away_win percentages of every returned
\* prediction sum to 100 within 0.1, whatever the Poisson draws were.
C1_SumWithinTolerance ==
    Answered =>
        LET p == response.pred.prediction
            sum == p.home_win + p.draw + p.away_win
        IN  sum - 1000 <= 1 /\ 1000 - sum <= 1

\* A prediction for two teams with history, drawn with home wins, draws and
\* away wins all present, whose power share was changed by the blend.
C1_Witness ==
    /\ Answered
    /\ Len(response.pred.home_form) > 0 /\ Len(response.pred.away_form) > 0
    /\ poisson.home_wins > 0 /\ poisson.draws > 0
    /\ poisson.home_wins + poisson.draws < Sims
    /\ response.pred.prediction.away_win > 0

\* C2: each of home_win, draw and away_win of every returned prediction lies
\* in [0, 100]; in particular away_win is never negative.
C2_EachWithinRange ==
    Answered =>
        LET p == response.pred.prediction
        IN  /\ 0 <= p.home_win /\ p.home_win <= 1000
            /\ 0 <= p.draw /\ p.draw <= 1000
            /\ 0 <= p.away_win /\ p.away_win <= 1000

\* C3: predict_match resolves raw names itself: the form, goal averages and
\* strength prior it reads for a raw name are those of normalize_team(name),
\* for the home argument and for the away argument.
C3_ResolvesRawNames ==
    Answered =>
        /\ predict_inputs(df_master, request.home, request.away)
             = predict_inputs(df_master, normalize_team(request.home), request.away)
        /\ predict_inputs(df_master, request.home, request.away)
             = predict_inputs(df_master, request.home, normalize_team(request.away))

\* C4: a /match request whose home or away name is missing or empty is not
\* answered with a prediction.
C4_MissingNameIsAnError ==
    (Missing(request.home) \/ Missing(request.away)) => ~Answered

----------------------------------------------------------------------------
(* Claims about the form helpers, checked under SpecForm *)

\* A team's goals for and against over all its rows of the history
GoalsOverHistory(df, team) ==
    LET rows == SelectRows(df, team)
        for(r)     == IF r.home = team THEN r.home_goals ELSE r.away_goals
        against(r) == IF r.home = team THEN r.away_goals ELSE r.home_goals
    IN  <<SumSeq([i \in 1..Len(rows) |-> for(rows[i])]),
          SumSeq([i \in 1..Len(rows) |-> against(rows[i])]),
          Len(rows)>>

\* C5: the goal averages of a team are its goals scored and conceded per game
\* over all its matches of the history, home and away, and (1.0, 1.0) when it
\* has none.
C5_AveragesOverHistory ==
    query.fn = "avg_goals" =>
        LET all == GoalsOverHistory(df_master, query.team)
        IN  IF all[3] = 0 THEN answer = <<1, 1, 1>>
            ELSE /\ answer[1] * all[3] = all[1] * answer[3]
                 /\ answer[2] * all[3] = all[2] * answer[3]

\* C6: get_last_n_matches(team, n) returns at most n entries, most recent
\* first, none of them from a record whose timestamp could not be parsed.
C6_LastNParsedOnly ==
    query.fn = "get_last_n_matches" =>
        /\ Len(answer) <= query.n
        /\ \A i, j \in 1..Len(answer) :
               i < j => to_datetime(answer[i].date) >= to_datetime(answer[j].date)
        /\ \A i \in 1..Len(answer) : answer[i].date # "NaT"

----------------------------------------------------------------------------
(* Claims about normalize_team, checked under SpecResolve *)

\* C7: team name resolution is idempotent, with the alias table of app.py and
\* with that of cleaner.py: normalize_team(normalize_team(x)) = normalize_team(x).
C7_ResolveIdempotent ==
    Len(resolved) = 2 => resolved[2] = resolved[1]

\* Both tables have resolved a padded alias to its canonical name, twice.
C7_Witness ==
    /\ Len(resolved) = 2
    /\ table = "cleaner"
    /\ rawName # resolved[1]
    /\ strip(rawName) # rawName
    /\ strip(rawName) # resolved[1]

----------------------------------------------------------------------------
(* Claims about the / route, checked under SpecUpcoming *)

\* The leagues with a fixture from today on, as a completed load leaves them
FutureLeagues ==
    { upcoming_csv[i].league : i \in
        { j \in 1..Len(upcoming_csv) :
            to_datetime(upcoming_csv[j].date) # NaT
              /\ to_datetime(upcoming_csv[j].date) >= today } }

Listed(league) == \E i \in 1..Len(LEAGUE_ORDER) : LEAGUE_ORDER[i] = league

Priority(league) == CHOOSE i \in 1..Len(LEAGUE_ORDER) : LEAGUE_ORDER[i] = league

\* C8: the ranked output keeps every league that has future fixtures, the
\* listed leagues in priority order and the others after them, each league's
\* fixtures ascending by kickoff and cut to the cap.
C8_KeepsEveryLeague ==
    \A t \in Threads :
        pc[t] = "done" =>
            /\ \A league \in FutureLeagues :
                   \E i \in 1..Len(grouped[t]) :
                       grouped[t][i][1] = league /\ grouped[t][i][2] # <<>>
            /\ \A i, j \in 1..Len(grouped[t]) :
                   i < j =>
                       \/ ~Listed(grouped[t][j][1])
                       \/ /\ Listed(grouped[t][i][1])
                          /\ Priority(grouped[t][i][1]) < Priority(grouped[t][j][1])
            /\ \A i \in 1..Len(grouped[t]) :
                   LET fixtures == grouped[t][i][2]
                   IN  /\ Len(fixtures) <= FIXTURE_CAP
                       /\ \A a, b \in 1..Len(fixtures) :
                              a < b => fixtures[a].datetime <= fixtures[b].datetime

\* A fixture row as a completed load_upcoming leaves it
FullyNormalized(row) ==
    /\ DOMAIN row = {"league", "home", "away", "date", "time", "datetime"}
    /\ row["date"] = date_str(row["datetime"])
    /\ row["time"] = strftime_HM(row["datetime"])
    /\ row["home"] \in Values(TEAM_ALIASES)
    /\ row["away"] \in Values(TEAM_ALIASES)

\* C10: with two concurrent requests for /, the ranking step of a request
\* only reads a fixture table that a completed load_upcoming has fully
\* normalized: it does not fail on a raw table, and every row it ranks is
\* fully normalized.
C10_RanksNormalizedTable ==
    \A t \in Threads :
        /\ pc[t] # "order_failed"
        /\ \A i \in 1..Len(grouped[t]) :
               \A k \in 1..Len(grouped[t][i][2]) : FullyNormalized(grouped[t][i][2][k])

----------------------------------------------------------------------------
(* Claims about the Poisson draws, checked under SpecSampling *)

\* What invocation p draws when no other invocation touches the generator
DrawsAlone(p) ==
    << poisson_samples(seed, expected[p][1]),
       poisson_samples(generator_after_call(seed), expected[p][2]) >>

\* C9: the samples a predict_match invocation draws do not depend on whether,
\* or in what interleaving, another invocation draws: they are the samples it
\* draws alone.
C9_DrawsIndependent ==
    \A p \in Invocations : spc[p] = "drawn" => drawn[p] = DrawsAlone(p)

=============================================================================
